---- MODULE Spec2Model ----
(***************************************************************************)
(* Model of DungeonPointsTracker (src/dungeon_tracker.py): the catalog     *)
(* loader, the classifier, calculate_diff, the update cycle with its       *)
(* bounded history, the daily and weekly summaries and the scheduling loop *)
(* with its interrupt.                                                     *)
(*                                                                         *)
(* Text is modelled as a sequence of chunks: a chunk is one character, or  *)
(* for dungeon names one whitespace-free word; " " is the whitespace       *)
(* chunk.  Labels are TLA+ strings.  The source's accented literals are    *)
(* written in ASCII ("Ztrata bodu", "Neznamy dungeon (N bodu)").           *)
(* A Python dict is a function whose DOMAIN is its key set.                *)
(***************************************************************************)
EXTENDS Integers, Sequences, FiniteSets, TLC

VARIABLES
    dungeon_map_file,   \* the catalog source on disk (self.dungeon_map_file)
    dungeon_map,        \* self.dungeon_map
    history,            \* self.history
    data_file,          \* the persisted history (self.data_file)
    csv_file,           \* rows of the change log below its header (self.csv_file)
    csv_failed,         \* whether a write to the change log has failed in this
                        \* process (history variable)
    summary_file,       \* rows of the summary below its header (self.summary_file)
    last_summary,       \* the kind and the day of the last summary run
    clock,              \* the time datetime.now() returns, in ticks
    cycles,             \* number of update() calls made so far
    fetched,            \* what fetch_data returned in the last update
    old_data,           \* first argument of the last calculate_diff call
    new_data,           \* second argument of the last calculate_diff call
    diff,               \* what the last calculate_diff call returned
    timestamp,          \* the datetime.now() the last update read (line 609)
    appended,           \* every entry update has appended, in order (history variable)
    attempt,            \* the loop index of the _save_history call taken in steps
    save_error,         \* what the last statement of that call raised, "none"
                        \* when it raised nothing
    tracebacks,         \* number of tracebacks the run_* wrappers have printed
                        \* (traceback.print_exc(), lines 638, 653, 668, 683)
    pc                \* "call": calculate_diff is about to be called; "idle":
                        \* between calls; "fetch", "save_csv", "append": the
                        \* place update() has reached; "save", "unlink",
                        \* "rename": the place _save_history has reached;
                        \* "crashed", "stopped": the process has ended

vars == <<dungeon_map_file, dungeon_map, history, data_file, csv_file,
          csv_failed, summary_file, last_summary, clock, cycles, fetched, old_data,
          new_data, diff, timestamp, appended, attempt, save_error,
          tracebacks, pc>>

-----------------------------------------------------------------------------
(* Bounds of the model *)

MaxPoints == 2      \* largest total a snapshot holds
MaxRows == 2        \* most rows in a catalog source
MaxDelta == 12      \* largest delta whose label is compared

Players == {"A", "B"}

(* Python values *)
EmptyDict == [k \in {} |-> 0]
None == [kind |-> "None", items |-> EmptyDict]
Dict(d) == [kind |-> "dict", items |-> d]

\* every dict player -> total with totals in lo..MaxPoints
SnapshotsFrom(lo) == UNION {[ks -> lo..MaxPoints] : ks \in SUBSET Players}
Snapshots == SnapshotsFrom(0)

-----------------------------------------------------------------------------
(* Text *)

Digits == <<"0", "1", "2", "3", "4", "5", "6", "7", "8", "9">>
IsDigit(c) == \E i \in 1..10 : Digits[i] = c
DigitVal(c) == (CHOOSE i \in 1..10 : Digits[i] = c) - 1
IsSpace(c) == c = " "

RECURSIVE lstrip(_)
lstrip(s) == IF s # <<>> /\ IsSpace(s[1]) THEN lstrip(Tail(s)) ELSE s

RECURSIVE rstrip(_)
rstrip(s) ==
    IF s # <<>> /\ IsSpace(s[Len(s)]) THEN rstrip(SubSeq(s, 1, Len(s) - 1)) ELSE s

\* str.strip()
strip(s) == rstrip(lstrip(s))

\* the text of a chunk sequence as one string
RECURSIVE text(_)
text(s) == IF s = <<>> THEN "" ELSE s[1] \o text(Tail(s))

RECURSIVE DigitsValue(_)
DigitsValue(s) ==
    IF s = <<>> THEN 0
    ELSE 10 * DigitsValue(SubSeq(s, 1, Len(s) - 1)) + DigitVal(s[Len(s)])

\* int(s): surrounding whitespace, an optional sign, one or more digits;
\* anything else raises ValueError (ok = FALSE)
int(s) ==
    LET t == strip(s)
        signed == t # <<>> /\ t[1] \in {"+", "-"}
        body == IF signed THEN Tail(t) ELSE t
        ok == body # <<>> /\ \A i \in 1..Len(body) : IsDigit(body[i])
    IN  [ok |-> ok,
         value |-> IF ~ok THEN 0
                   ELSE IF signed /\ t[1] = "-" THEN 0 - DigitsValue(body)
                   ELSE DigitsValue(body)]

RECURSIVE DigitsOf(_)
DigitsOf(n) ==
    IF n < 10 THEN Digits[n + 1] ELSE DigitsOf(n \div 10) \o Digits[(n % 10) + 1]

RECURSIVE DigitChars(_)
DigitChars(n) ==
    IF n < 10 THEN <<Digits[n + 1]>>
    ELSE Append(DigitChars(n \div 10), Digits[(n % 10) + 1])

\* str(n) as the characters csv.writer puts into a field
chars(n) == IF n < 0 THEN <<"-">> \o DigitChars(0 - n) ELSE DigitChars(n)

\* the decimal text an f-string gives an integer
str(n) == IF n < 0 THEN "-" \o DigitsOf(0 - n) ELSE DigitsOf(n)

\* sep.join(names)
RECURSIVE join(_, _)
join(sep, names) ==
    IF names = <<>> THEN ""
    ELSE IF Len(names) = 1 THEN names[1]
    ELSE names[1] \o sep \o join(sep, Tail(names))

-----------------------------------------------------------------------------
(* The catalog source: Dungeony2.csv as csv.DictReader yields it.  A row is a
   dict of its fields; a field the line does not have is read as Python None
   and is modelled by the key being absent. *)

Row(name, points) == [Dung |-> name, Pts |-> points]

CatalogRows == {
    Row(<<"Crypt">>, <<"1">>),
    Row(<<"Tower">>, <<"2">>),
    Row(<<" ", "Vault", " ">>, <<" ", "2">>),
    Row(<<"Pit">>, <<>>),
    Row(<<"Bog">>, <<"x">>),
    Row(<<"Den">>, <<"-", "1">>),
    Row(<<"Hut">>, <<"0">>),
    Row(<<"Ztrata bodu">>, <<"1">>),
    Row(<<" ">>, <<"2">>),
    [Dung |-> <<"Peak">>] }

RowSeqs == UNION {[1..n -> CatalogRows] : n \in 0..MaxRows}

CatalogFile(exists, readable, rows) ==
    [exists |-> exists, readable |-> readable, rows |-> rows]

MissingFile == CatalogFile(FALSE, FALSE, <<>>)

\* a missing source, a source open() fails on, and every readable source
CatalogFiles ==
    {MissingFile}
        \cup {CatalogFile(TRUE, FALSE, rows) : rows \in {r \in RowSeqs : Len(r) <= 1}}
        \cup {CatalogFile(TRUE, TRUE, rows) : rows \in RowSeqs}

\* lines 55-66: the loop over the rows from row i on.  .strip() of a None
\* field raises AttributeError, which leaves the loop for the handler of
\* line 71 with the dict built so far.
RECURSIVE load_rows(_, _, _)
load_rows(rows, i, map) ==
    IF i > Len(rows) THEN map
    ELSE LET row == rows[i] IN
         IF ~({"Dung", "Pts"} \subseteq DOMAIN row) THEN map
         ELSE LET dungeon_name == text(strip(row.Dung))
                  points_str == strip(row.Pts)
                  points == int(points_str)
              IN  IF points_str = <<>> \/ ~points.ok
                      THEN load_rows(rows, i + 1, map)
                  ELSE IF points.value \in DOMAIN map
                      THEN load_rows(rows, i + 1,
                               [map EXCEPT ![points.value] = Append(@, dungeon_name)])
                  ELSE load_rows(rows, i + 1,
                               (points.value :> <<dungeon_name>>) @@ map)

\* _load_dungeon_map: no file, or open() raising, gives the empty dict
load_dungeon_map(file) ==
    IF ~file.exists THEN EmptyDict
    ELSE IF ~file.readable THEN EmptyDict
    ELSE load_rows(file.rows, 1, EmptyDict)

\* mutant: an ambiguous delta is labelled with its first name only
get_dungeon_name_first_only(points, map) ==
    IF points \notin DOMAIN map
        THEN "Neznamy dungeon (" \o str(points) \o " bodu)"
    ELSE map[points][1]

\* mutant: the label of an unregistered delta leaves the delta out
get_dungeon_name_no_delta(points, map) ==
    IF points \notin DOMAIN map THEN "Neznamy dungeon"
    ELSE IF Len(map[points]) = 1 THEN map[points][1] ELSE join(" / ", map[points])

\* _get_dungeon_name
get_dungeon_name(points, map) ==
    IF points \notin DOMAIN map
        THEN "Neznamy dungeon (" \o str(points) \o " bodu)"
    ELSE LET dungeons == map[points] IN
         IF Len(dungeons) = 1 THEN dungeons[1] ELSE join(" / ", dungeons)

\* dict.get(key, default)
get(d, key, default) == IF key \in DOMAIN d THEN d[key] ELSE default

LossLabel == "Ztrata bodu"

\* calculate_diff with its parts as parameters, for the mutants below:
\* the players looked at, the total of a player absent from new, whether
\* zero changes are kept, and the label of a change
diff_variant(old, new, universe, absent_new(_), keep_zero, label(_)) ==
    LET old_points(player) == get(old, player, 0)
        new_points(player) == get(new, player, absent_new(player))
        change(player) == new_points(player) - old_points(player)
    IN  Dict([player \in {p \in universe : keep_zero \/ change(p) # 0} |->
                [old |-> old_points(player),
                 new |-> new_points(player),
                 change |-> change(player),
                 dungeon |-> label(change(player))]])

\* mutant: only the players of the current snapshot are looked at
calculate_diff_current_only(old, new, map) ==
    IF DOMAIN old = {} THEN None
    ELSE diff_variant(old, new, DOMAIN new, LAMBDA p : 0, FALSE,
             LAMBDA c : IF c > 0 THEN get_dungeon_name(c, map) ELSE LossLabel)

\* mutant: the change is old - new
calculate_diff_reversed(old, new, map) ==
    IF DOMAIN old = {} THEN None
    ELSE LET d == diff_variant(new, old, DOMAIN old \cup DOMAIN new, LAMBDA p : 0, FALSE,
                      LAMBDA c : IF c > 0 THEN get_dungeon_name(c, map) ELSE LossLabel).items
         IN  Dict([p \in DOMAIN d |-> [d[p] EXCEPT !.old = d[p].new, !.new = d[p].old]])

\* mutant: no early return for an empty previous snapshot
calculate_diff_no_guard(old, new, map) ==
    diff_variant(old, new, DOMAIN old \cup DOMAIN new, LAMBDA p : 0, FALSE,
        LAMBDA c : IF c > 0 THEN get_dungeon_name(c, map) ELSE LossLabel)

\* mutant: players whose total did not change get a record too
calculate_diff_keep_zero(old, new, map) ==
    IF DOMAIN old = {} THEN None
    ELSE diff_variant(old, new, DOMAIN old \cup DOMAIN new, LAMBDA p : 0, TRUE,
             LAMBDA c : IF c > 0 THEN get_dungeon_name(c, map) ELSE LossLabel)

\* mutant: a player absent from the current snapshot keeps the old total
calculate_diff_ignore_vanished(old, new, map) ==
    IF DOMAIN old = {} THEN None
    ELSE diff_variant(old, new, DOMAIN old \cup DOMAIN new,
             LAMBDA p : get(old, p, 0), FALSE,
             LAMBDA c : IF c > 0 THEN get_dungeon_name(c, map) ELSE LossLabel)

\* mutant: a change that is a key of the catalog is looked up whatever its sign
calculate_diff_lookup_losses(old, new, map) ==
    IF DOMAIN old = {} THEN None
    ELSE diff_variant(old, new, DOMAIN old \cup DOMAIN new, LAMBDA p : 0, FALSE,
             LAMBDA c : IF c > 0 \/ c \in DOMAIN map
                            THEN get_dungeon_name(c, map) ELSE LossLabel)

\* mutant: the old total is read by subscript, which raises KeyError for a
\* player the previous snapshot does not hold
calculate_diff_subscript(old, new, map) ==
    IF DOMAIN old = {} THEN None
    ELSE IF ~(DOMAIN new \subseteq DOMAIN old)
        THEN [kind |-> "KeyError", items |-> EmptyDict]
    ELSE diff_variant(old, new, DOMAIN old \cup DOMAIN new, LAMBDA p : 0, FALSE,
             LAMBDA c : IF c > 0 THEN get_dungeon_name(c, map) ELSE LossLabel)

\* calculate_diff
calculate_diff(old, new, map) ==
    IF DOMAIN old = {} THEN None
    ELSE LET all_players == DOMAIN old \cup DOMAIN new
             old_points(player) == get(old, player, 0)
             new_points(player) == get(new, player, 0)
             change(player) == new_points(player) - old_points(player)
         IN  Dict([player \in {p \in all_players : change(p) # 0} |->
                     [old |-> old_points(player),
                      new |-> new_points(player),
                      change |-> change(player),
                      dungeon |-> IF change(player) > 0
                                      THEN get_dungeon_name(change(player), map)
                                      ELSE LossLabel]])

-----------------------------------------------------------------------------
(* Time.  A datetime is a count of ticks, one tick being the two hours
   between scheduled updates; update reads the clock once (line 609) and the
   cycle takes one tick. *)

TicksPerDay == 12

date_str(t) == "D" \o str(t \div TicksPerDay)
time_str(t) == "H" \o str(t % TicksPerDay)
\* timestamp.isoformat()
isoformat(t) == date_str(t) \o "T" \o time_str(t)
\* timestamp.strftime('%Y-%m-%d %H:%M:%S')
timestamp_str(t) == date_str(t) \o " " \o time_str(t)

-----------------------------------------------------------------------------
(* The history and its file *)

HistoryLimit == 30
max_attempts == 3

Entry(t, data) == [timestamp |-> isoformat(t), data |-> data]

\* dungeon_data.json: whether it exists, whether open() is permitted, whether
\* its bytes are UTF-8, whether its text is JSON, and the list it then holds
DataFile(exists, readable, decodes, parses, entries) ==
    [exists |-> exists, readable |-> readable, decodes |-> decodes,
     parses |-> parses, entries |-> entries]

AbsentFile == DataFile(FALSE, FALSE, FALSE, FALSE, <<>>)
\* text that is not JSON, such as the head of an interrupted write
CorruptFile == DataFile(TRUE, TRUE, TRUE, FALSE, <<>>)
\* bytes that are not UTF-8
UndecodableFile == DataFile(TRUE, TRUE, FALSE, FALSE, <<>>)
SavedFile(entries) == DataFile(TRUE, TRUE, TRUE, TRUE, entries)
\* a saved file that another program holds locked
LockedFile(entries) == DataFile(TRUE, FALSE, TRUE, TRUE, entries)

\* _load_history: the list returned, or raised = TRUE when an exception
\* leaves the function.  open() raising PermissionError and json.load
\* raising JSONDecodeError are caught by line 128; the UnicodeDecodeError
\* that reading undecodable bytes raises is neither of the two.
load_history(file) ==
    IF ~file.exists THEN [raised |-> FALSE, value |-> <<>>]
    ELSE IF ~file.readable THEN [raised |-> FALSE, value |-> <<>>]
    ELSE IF ~file.decodes THEN [raised |-> TRUE, value |-> <<>>]
    ELSE IF ~file.parses THEN [raised |-> FALSE, value |-> <<>>]
    ELSE [raised |-> FALSE, value |-> file.entries]

\* mutant: the history is never cut
truncate_none(h) == h

\* mutant: the oldest HistoryLimit entries are kept
truncate_keep_oldest(h) ==
    IF Len(h) <= HistoryLimit THEN h ELSE SubSeq(h, 1, HistoryLimit)

\* self.history[-30:]
truncate(h) ==
    IF Len(h) <= HistoryLimit THEN h
    ELSE SubSeq(h, Len(h) - HistoryLimit + 1, Len(h))

\* mutant: every exception is retried
after_failure_retry_all(error, att) == att < max_attempts - 1

\* lines 146-155: whether an attempt that raised `error` is followed by
\* another one.  A PermissionError is, except on the last attempt; another
\* Exception breaks the loop.
after_failure(error, att) ==
    error = "PermissionError" /\ att < max_attempts - 1

\* _save_history from attempt number `att` on: the set of states the
\* file can be left in.  An attempt writes the temporary file, unlinks the
\* data file if it exists and renames the temporary file to it.  It can
\* succeed; raise PermissionError before the unlink, or at the rename (the
\* data file then being gone), which is retried until the last attempt; or
\* raise another exception at either place, which ends the loop.
RECURSIVE save_history(_, _, _)
save_history(file, h, att) ==
    LET retry(f) == IF after_failure("PermissionError", att)
                        THEN save_history(f, h, att + 1) ELSE {f}
        unlinked == IF file.exists THEN AbsentFile ELSE file
    IN  {SavedFile(h)} \cup retry(file) \cup retry(unlinked) \cup {file, unlinked}

-----------------------------------------------------------------------------
(* The change log *)

\* the row save_changes_to_csv writes for one record (lines 264-273); the
\* file is text, csv.writer writing each number as the characters of str()
CsvRow(t, player, changes) ==
    [Timestamp |-> timestamp_str(t), Datum |-> date_str(t), Cas |-> time_str(t),
     Hrac |-> player, BodyPredtim |-> chars(changes.old), BodyNyni |-> chars(changes.new),
     Zmena |-> chars(changes.change), Dungeon |-> changes.dungeon]

\* the orders in which a dict built from a set of players can be iterated
Orders(keys) ==
    {o \in [1..Cardinality(keys) -> keys] : \A i, j \in DOMAIN o : i # j => o[i] # o[j]}

\* whether save_changes_to_csv, called for d, fails to write (lines 277-278)
write_fails(d, writable) == DOMAIN d.items # {} /\ ~writable

\* mutant: only the rows of gains are written
save_changes_to_csv_gains_only(rows, d, t, order, writable) ==
    IF DOMAIN d.items = {} THEN rows
    ELSE IF ~writable THEN rows
    ELSE rows \o SelectSeq([i \in 1..Len(order) |->
                               CsvRow(t, order[i], d.items[order[i]])],
                           LAMBDA r : int(r.Zmena).value > 0)

\* save_changes_to_csv: the rows appended, in the iteration order `order`;
\* a PermissionError on opening the file (writable = FALSE) appends nothing
save_changes_to_csv(rows, d, t, order, writable) ==
    IF DOMAIN d.items = {} THEN rows
    ELSE IF ~writable THEN rows
    ELSE rows \o [i \in 1..Len(order) |-> CsvRow(t, order[i], d.items[order[i]])]

-----------------------------------------------------------------------------
(* The summaries.  A date is a day number; day 3 is the Monday that starts
   ISO week 2, so that the tracker, constructed on day 2, starts on a
   Sunday. *)

MaxClock == 56      \* the last tick the clock reaches

\* datetime.now().date(), timestamp.date()
date(t) == t \div TicksPerDay
\* date.weekday(): 0 on Mondays
weekday(d) == (d + 4) % 7
\* date.isocalendar()[1]
isoweek(d) == (d + 4) \div 7 + 1
\* date.strftime('%Y-%m-%d')
day_str(d) == date_str(d * TicksPerDay)

\* datetime.strptime(s, '%Y-%m-%d %H:%M:%S'): the datetime whose text s
\* is; any other text raises ValueError (ok = FALSE)
TimestampTexts == [t \in 0..MaxClock |-> timestamp_str(t)]
strptime(s) ==
    IF \E t \in 0..MaxClock : TimestampTexts[t] = s
        THEN [ok |-> TRUE, value |-> CHOOSE t \in 0..MaxClock : TimestampTexts[t] = s]
        ELSE [ok |-> FALSE, value |-> 0]

\* the labels of the model in the order sorted() puts them
SortedLabels ==
    <<"Crypt", "Neznamy dungeon (1 bodu)", "Neznamy dungeon (2 bodu)",
      "Tower / Vault", "Ztrata bodu">>

NoSummary == [typ |-> "none", day |-> 0]

\* lines 296-308 (368-380): whether a row of the change log is counted
counted(row, first_day, last_day) ==
    LET ts == strptime(row.Timestamp)
        change == int(row.Zmena)
    IN  /\ ts.ok /\ change.ok
        /\ first_day <= date(ts.value) /\ date(ts.value) <= last_day
        /\ change.value > 0
        /\ row.Dungeon # LossLabel

\* the rows a summary writes: one for each label of dungeon_stats, sorted,
\* with its count, its players and its times.  The daily summary lists the
\* time of a row and joins with ", " (lines 302, 322); the weekly one lists
\* date and time and joins with "; " (lines 374, 390).
summary_rows(rows, first_day, last_day, period, typ) ==
    LET time_of(r) == IF typ = "DENNI" THEN r.Cas ELSE r.Datum \o " " \o r.Cas
        time_sep == IF typ = "DENNI" THEN ", " ELSE "; "
        kept == SelectSeq(rows, LAMBDA r : counted(r, first_day, last_day))
        labels == {kept[i].Dungeon : i \in 1..Len(kept)}
        sorted == SelectSeq(SortedLabels, LAMBDA l : l \in labels)
        of(label) == SelectSeq(kept, LAMBDA r : r.Dungeon = label)
    IN  [i \in 1..Len(sorted) |->
            LET stats == of(sorted[i]) IN
            [Obdobi |-> period, Typ |-> typ,
             Od |-> day_str(first_day), Do |-> day_str(last_day),
             Dungeon |-> sorted[i],
             Pocet |-> chars(Len(stats)),
             Hraci |-> join(", ", [j \in 1..Len(stats) |-> stats[j].Hrac]),
             Casy |-> join(time_sep, [j \in 1..Len(stats) |-> time_of(stats[j])])]]

\* the end of both summaries: nothing is written when dungeon_stats is
\* empty, or when opening the summary file raises (writable = FALSE), the
\* exception being caught by the function's handler
write_summary(summary, new_rows, writable) ==
    IF new_rows = <<>> THEN summary
    ELSE IF ~writable THEN summary
    ELSE summary \o new_rows

\* generate_daily_summary run at time now
generate_daily_summary(rows, summary, now, writable) ==
    LET yesterday == date(now) - 1
    IN  write_summary(summary,
            summary_rows(rows, yesterday, yesterday, day_str(yesterday), "DENNI"),
            writable)

\* generate_weekly_summary run at time now
generate_weekly_summary(rows, summary, now, writable) ==
    LET today == date(now)
        week_start == today - (weekday(today) + 7)
        week_end == week_start + 6
    IN  write_summary(summary,
            summary_rows(rows, week_start, week_end,
                         "Tyden " \o str(isoweek(week_start)), "TYDENNI"),
            writable)

-----------------------------------------------------------------------------
(* update *)

\* mutant: the diff is taken against the oldest entry of the history
previous_snapshot_oldest(h) == IF h # <<>> THEN h[1].data ELSE EmptyDict

\* line 606: self.history[-1]['data'] if self.history else {}
previous_snapshot(h) == IF h # <<>> THEN h[Len(h)].data ELSE EmptyDict

\* mutant: only a failed download is rejected
rejected_none_only(data) == data = None

\* lines 596-602: a failed download (None) and an empty scrape end the cycle
rejected(data) == data = None \/ DOMAIN data.items = {}

\* one call of update(), fetch_data returning a value of fetch_results
UpdateWith(fetch_results) ==
    \E data \in fetch_results :
        /\ pc = "idle"
        /\ cycles' = cycles + 1
        /\ fetched' = data
        /\ IF rejected(data)
              THEN UNCHANGED <<history, data_file, csv_file, csv_failed, clock,
                               old_data, new_data, diff, timestamp, appended>>
              ELSE LET old == previous_snapshot(history)
                       d == calculate_diff(old, data.items, dungeon_map)
                       entry == Entry(clock, data.items)
                       h == truncate(Append(history, entry))
                   IN  /\ old_data' = old
                       /\ new_data' = data.items
                       /\ diff' = d
                       /\ timestamp' = clock
                       /\ clock' = clock + 1
                       /\ \E order \in Orders(DOMAIN d.items), writable \in BOOLEAN :
                             /\ csv_file' = save_changes_to_csv(csv_file, d, clock,
                                                                order, writable)
                             /\ csv_failed' = (csv_failed \/ write_fails(d, writable))
                       /\ history' = h
                       /\ appended' = Append(appended, entry)
                       /\ data_file' \in save_history(data_file, h, 0)
        /\ UNCHANGED <<dungeon_map_file, dungeon_map, tracebacks, attempt, save_error,
                       summary_file, last_summary, pc>>

-----------------------------------------------------------------------------
(* SpecDiff: calculate_diff called once on each pair of snapshots, under
   each catalog a source of at most MaxRows rows builds. *)

InitDiff ==
    /\ dungeon_map_file \in CatalogFiles
    /\ dungeon_map = load_dungeon_map(dungeon_map_file)
    /\ history = <<>>
    /\ data_file = AbsentFile
    /\ csv_file = <<>>
    /\ csv_failed = FALSE
    /\ summary_file = <<>>
    /\ last_summary = NoSummary
    /\ attempt = 0
    /\ save_error = "none"
    /\ tracebacks = 0
    /\ clock = 0
    /\ cycles = 0
    /\ fetched = None
    /\ old_data \in Snapshots
    /\ new_data \in Snapshots
    /\ diff = None
    /\ timestamp = 0
    /\ appended = <<>>
    /\ pc = "call"

CallCalculateDiff ==
    /\ pc = "call"
    /\ diff' = calculate_diff(old_data, new_data, dungeon_map)
    /\ pc' = "idle"
    /\ UNCHANGED <<dungeon_map_file, dungeon_map, tracebacks, csv_failed, attempt,
                   save_error, history, data_file, csv_file, summary_file,
                   last_summary, clock, cycles, fetched, old_data, new_data,
                   timestamp, appended>>

NextDiff == CallCalculateDiff

SpecDiff == InitDiff /\ [][NextDiff]_vars

-----------------------------------------------------------------------------
(* Spec: the tracker after construction, and MaxCycles calls of update()
   against a leaderboard that changes, with every outcome of the download,
   of the change-log write and of the history save. *)

MaxCycles == 3      \* update() calls in Spec
MaxLongCycles == 32 \* update() calls in SpecLong

ExampleCatalog ==
    CatalogFile(TRUE, TRUE,
        <<Row(<<"Crypt">>, <<"1">>), Row(<<"Tower">>, <<"2">>), Row(<<"Vault">>, <<"2">>)>>)

\* the leaderboard tables of the page: player and points of each row
Leaderboards == {
    EmptyDict,
    [p \in {"A"} |-> 0],
    [p \in {"A"} |-> 1],
    [p \in {"A"} |-> 2],
    [p \in {"B"} |-> 1],
    [p \in {"A", "B"} |-> IF p = "A" THEN 0 ELSE 1],
    [p \in {"A", "B"} |-> IF p = "A" THEN 1 ELSE 2] }

\* mutant: rows with 0 points are stored too
scraped_keep_zero(table) == table

\* lines 203-207: the dict fetch_data builds from a table, a row being
\* stored only if its points are above 0
scraped(table) == [p \in {q \in DOMAIN table : table[q] > 0} |-> table[p]]

\* what fetch_data scrapes
Scrapes == {scraped(table) : table \in Leaderboards}

\* fetch_data: None on an exception, else the scraped dict
FetchResults == {None} \cup {Dict(s) : s \in Scrapes}

\* the history file found at start: none, a corrupted one (not JSON, not
\* UTF-8), a locked one, one entry left by an earlier run, or a full history
\* left by earlier runs
StartFiles ==
    {AbsentFile, CorruptFile, UndecodableFile,
     LockedFile(<<Entry(0, [p \in {"A"} |-> 1])>>)}
        \cup {SavedFile(<<Entry(0, s)>>) : s \in Scrapes \ {EmptyDict}}
        \cup {SavedFile([i \in 1..HistoryLimit |-> Entry(i - 1, [p \in {"A"} |-> 1])])}

\* __init__; an exception leaving _load_history leaves __init__ and main
\* (line 695), the process ending before any cycle ("crashed")
Constructed(catalog_files, start_files) ==
    /\ dungeon_map_file \in catalog_files
    /\ dungeon_map = load_dungeon_map(dungeon_map_file)
    /\ data_file \in start_files
    /\ history = load_history(data_file).value
    /\ csv_file = <<>>
    /\ csv_failed = FALSE
    /\ summary_file = <<>>
    /\ last_summary = NoSummary
    /\ attempt = 0
    /\ save_error = "none"
    /\ tracebacks = 0
    /\ clock = HistoryLimit    \* later than every entry of the start files
    /\ cycles = 0
    /\ fetched = None
    /\ old_data = EmptyDict
    /\ new_data = EmptyDict
    /\ diff = None
    /\ timestamp = 0
    /\ appended = <<>>
    /\ pc = IF load_history(data_file).raised THEN "crashed" ELSE "idle"

Init == Constructed({MissingFile, ExampleCatalog}, StartFiles)

Update == cycles < MaxCycles /\ UpdateWith(FetchResults)

Next == Update

Spec == Init /\ [][Next]_vars

(* SpecLong: the tracker started without a history file, and MaxLongCycles
   calls of update() against a leaderboard that does not change, so that the
   history fills up and overflows. *)

SteadyResults == {None, Dict(EmptyDict), Dict([p \in {"A"} |-> 1])}

InitLong == Constructed({ExampleCatalog}, {AbsentFile})

UpdateLong == cycles < MaxLongCycles /\ UpdateWith(SteadyResults)

NextLong == UpdateLong

SpecLong == InitLong /\ [][NextLong]_vars

(* SpecSteps: the scheduling loop of main with update() taken one statement
   group at a time, and the interrupt signal.  Python raises
   KeyboardInterrupt in the main thread wherever it is; update() and the
   functions it calls catch Exception or PermissionError, which
   KeyboardInterrupt is not, run_scheduled_update re-raises it (lines
   633-634) and main ends the loop (line 766). *)

MaxStepCycles == 2  \* update() calls in SpecSteps

InitSteps ==
    Constructed({ExampleCatalog},
                {AbsentFile, SavedFile(<<Entry(0, [p \in {"A"} |-> 1])>>)})

\* run_scheduled_update calls update(): lines 592-594, up to the download
BeginUpdate ==
    /\ pc = "idle"
    /\ cycles < MaxStepCycles
    /\ cycles' = cycles + 1
    /\ pc' = "fetch"
    /\ UNCHANGED <<dungeon_map_file, dungeon_map, tracebacks, csv_failed, attempt,
                   save_error, history, data_file, csv_file, summary_file,
                   last_summary, clock, fetched, old_data, new_data, diff,
                   timestamp, appended>>

\* lines 594-610: the download returns, the cycle ends on a rejected result,
\* otherwise the diff is computed and the clock read
FetchAndDiff ==
    /\ pc = "fetch"
    /\ \E data \in FetchResults :
          /\ fetched' = data
          /\ IF rejected(data)
                THEN /\ pc' = "idle"
                     /\ UNCHANGED <<clock, old_data, new_data, diff,
                                    timestamp>>
                ELSE LET old == previous_snapshot(history)
                         d == calculate_diff(old, data.items, dungeon_map)
                     IN  /\ old_data' = old
                         /\ new_data' = data.items
                         /\ diff' = d
                         /\ timestamp' = clock
                         /\ clock' = clock + 1
                         /\ pc' = IF DOMAIN d.items # {} THEN "save_csv" ELSE "append"
    /\ UNCHANGED <<dungeon_map_file, dungeon_map, tracebacks, csv_failed, attempt,
                   save_error, history, data_file, csv_file, summary_file,
                   last_summary, cycles, appended>>

\* lines 612-613
WriteCsv ==
    /\ pc = "save_csv"
    /\ \E order \in Orders(DOMAIN diff.items), writable \in BOOLEAN :
          /\ csv_file' = save_changes_to_csv(csv_file, diff, timestamp,
                                             order, writable)
          /\ csv_failed' = (csv_failed \/ write_fails(diff, writable))
    /\ pc' = "append"
    /\ UNCHANGED <<dungeon_map_file, dungeon_map, tracebacks, attempt, save_error, history,
                   data_file, summary_file, last_summary, clock, cycles,
                   fetched, old_data, new_data, diff, timestamp, appended>>

\* lines 615-620
AppendHistory ==
    /\ pc = "append"
    /\ history' = truncate(Append(history, Entry(timestamp, new_data)))
    /\ appended' = Append(appended, Entry(timestamp, new_data))
    /\ attempt' = 0
    /\ save_error' = "none"
    /\ pc' = "save"
    /\ UNCHANGED <<dungeon_map_file, dungeon_map, tracebacks, csv_failed, data_file,
                   csv_file, summary_file, last_summary, clock, cycles,
                   fetched, old_data, new_data, diff, timestamp>>

\* _save_history taken one statement at a time.  A statement succeeds or
\* raises; what is raised is PermissionError or another Exception.
SaveErrors == {"PermissionError", "Exception"}

\* lines 146-155, an attempt having raised `error`: the call goes on with
\* the next attempt ("save") or ends ("idle")
Failed(error) ==
    /\ save_error' = error
    /\ IF after_failure(error, attempt)
          THEN attempt' = attempt + 1 /\ pc' = "save"
          ELSE attempt' = attempt /\ pc' = "idle"

\* lines 138-140: the temporary file is written
WriteTemp ==
    /\ pc = "save"
    /\ \/ pc' = "unlink" /\ save_error' = "none" /\ UNCHANGED attempt
       \/ \E error \in SaveErrors : Failed(error)
    /\ UNCHANGED <<dungeon_map_file, dungeon_map, tracebacks, csv_failed, history,
                   data_file, csv_file, summary_file, last_summary, clock,
                   cycles, fetched, old_data, new_data, diff, timestamp,
                   appended>>

\* lines 142-143: the data file, if there is one, is unlinked
Unlink ==
    /\ pc = "unlink"
    /\ IF ~data_file.exists
          THEN /\ pc' = "rename"
               /\ save_error' = "none"
               /\ UNCHANGED <<data_file, attempt>>
          ELSE \/ /\ data_file' = AbsentFile
                  /\ pc' = "rename"
                  /\ save_error' = "none"
                  /\ UNCHANGED attempt
               \/ /\ \E error \in SaveErrors : Failed(error)
                  /\ UNCHANGED data_file
    /\ UNCHANGED <<dungeon_map_file, dungeon_map, tracebacks, csv_failed, history,
                   csv_file, summary_file, last_summary, clock, cycles,
                   fetched, old_data, new_data, diff, timestamp, appended>>

\* lines 144-145: the temporary file, which holds the history, is renamed
\* to the data file and the call returns
Rename ==
    /\ pc = "rename"
    /\ \/ /\ data_file' = SavedFile(history)
          /\ save_error' = "none"
          /\ pc' = "idle"
          /\ UNCHANGED attempt
       \/ /\ \E error \in SaveErrors : Failed(error)
          /\ UNCHANGED data_file
    /\ UNCHANGED <<dungeon_map_file, dungeon_map, tracebacks, csv_failed, history,
                   csv_file, summary_file, last_summary, clock, cycles,
                   fetched, old_data, new_data, diff, timestamp, appended>>

\* the interrupt signal: KeyboardInterrupt raised where the main thread is
Interrupt ==
    /\ pc \in {"idle", "fetch", "save_csv", "append", "save", "unlink", "rename"}
    /\ pc' = "stopped"
    /\ UNCHANGED <<dungeon_map_file, dungeon_map, tracebacks, csv_failed, attempt,
                   save_error, history, data_file, csv_file, summary_file,
                   last_summary, clock, cycles, fetched, old_data, new_data,
                   diff, timestamp, appended>>

NextSteps ==
    \/ BeginUpdate
    \/ FetchAndDiff
    \/ WriteCsv
    \/ AppendHistory
    \/ WriteTemp
    \/ Unlink
    \/ Rename
    \/ Interrupt

SpecSteps == InitSteps /\ [][NextSteps]_vars

\* SpecSteps with a call of _save_history that has begun going on: each
\* statement returns or raises, and the sleep of line 149 ends
FairSpecSteps == SpecSteps /\ WF_vars(WriteTemp \/ Unlink \/ Rename)

(* SpecSummary: update() calls, time passing, and runs of the daily and the
   weekly summary, under a catalog of ordinary names and under a catalog
   with a dungeon named like the loss label. *)

MaxSummaryCycles == 2   \* update() calls in SpecSummary
MaxSummaryRows == 2     \* summary rows after which no summary is run

SentinelCatalog ==
    CatalogFile(TRUE, TRUE, <<Row(<<"Ztrata bodu">>, <<"1">>)>>)

SummaryResults ==
    {Dict([p \in {"A"} |-> 1]), Dict([p \in {"A"} |-> 2]),
     Dict([p \in {"A", "B"} |-> IF p = "A" THEN 1 ELSE 2])}

InitSummary ==
    Constructed({ExampleCatalog, SentinelCatalog},
                {SavedFile(<<Entry(0, [p \in {"A"} |-> 1])>>)})

UpdateSummary ==
    /\ cycles < MaxSummaryCycles
    /\ clock < MaxClock
    /\ UpdateWith(SummaryResults)

\* the loop of main waiting (time.sleep) until the same time of the next day
Sleep ==
    /\ clock' = clock + TicksPerDay
    /\ clock' <= MaxClock
    /\ UNCHANGED <<dungeon_map_file, dungeon_map, tracebacks, csv_failed, attempt,
                   save_error, history, data_file, csv_file, summary_file,
                   last_summary, cycles, fetched, old_data, new_data, diff,
                   timestamp, appended, pc>>

\* run_daily_summary
DailySummary ==
    /\ Len(summary_file) < MaxSummaryRows
    /\ \E writable \in BOOLEAN :
          summary_file' = generate_daily_summary(csv_file, summary_file, clock, writable)
    /\ last_summary' = [typ |-> "DENNI", day |-> date(clock)]
    /\ UNCHANGED <<dungeon_map_file, dungeon_map, tracebacks, csv_failed, attempt,
                   save_error, history, data_file, csv_file, clock, cycles,
                   fetched, old_data, new_data, diff, timestamp, appended, pc>>

\* run_weekly_summary
WeeklySummary ==
    /\ Len(summary_file) < MaxSummaryRows
    /\ \E writable \in BOOLEAN :
          summary_file' = generate_weekly_summary(csv_file, summary_file, clock, writable)
    /\ last_summary' = [typ |-> "TYDENNI", day |-> date(clock)]
    /\ UNCHANGED <<dungeon_map_file, dungeon_map, tracebacks, csv_failed, attempt,
                   save_error, history, data_file, csv_file, clock, cycles,
                   fetched, old_data, new_data, diff, timestamp, appended, pc>>

NextSummary ==
    \/ UpdateSummary
    \/ Sleep
    \/ DailySummary
    \/ WeeklySummary

SpecSummary == InitSummary /\ [][NextSummary]_vars

(* SpecLoop: automatic mode of main (lines 733-770).  The four scheduled
   tasks run through their run_* wrappers: update() one statement group at
   a time as in SpecSteps, the report and the summaries in one step each.
   A statement of a task that no try block of the task covers raises into
   the wrapper of the task. *)

MaxTracebacks == 1  \* tracebacks after which no task raises an Exception

\* what a statement raises into the wrapper: KeyboardInterrupt, or an
\* exception of a class derived from Exception
Raised == {"Exception", "KeyboardInterrupt"}

\* mutant: a wrapper without its `except Exception` clause
run_wrapper_reraise(exception) == IF exception = "KeyboardInterrupt" THEN "stopped" ELSE "crashed"

\* run_scheduled_update, lines 628-638 (run_daily_report 643-653,
\* run_daily_summary 657-668, run_weekly_summary 672-683), `exception`
\* raised in the try block: KeyboardInterrupt is raised again and ends the
\* loop of main (line 766), anything else is printed and the wrapper returns
\* to the loop
run_wrapper(exception) == IF exception = "KeyboardInterrupt" THEN "stopped" ELSE "idle"

\* the except clauses of a wrapper taken for `exception`
Wrapper(exception) ==
    /\ pc' = run_wrapper(exception)
    /\ tracebacks' = IF exception = "KeyboardInterrupt" THEN tracebacks
                                                        ELSE tracebacks + 1

\* lines 612-613, save_changes_to_csv raising what its except clause (line
\* 277) does not catch: some of the rows have reached the file, update()
\* is left before the append of line 615
WriteCsvRaises ==
    /\ pc = "save_csv"
    /\ tracebacks < MaxTracebacks
    /\ \E order \in Orders(DOMAIN diff.items), n \in 0..Cardinality(DOMAIN diff.items) :
          csv_file' = SubSeq(save_changes_to_csv(csv_file, diff, timestamp, order, TRUE),
                             1, Len(csv_file) + n)
    /\ csv_failed' = TRUE
    /\ \E exception \in Raised : Wrapper(exception)
    /\ UNCHANGED <<dungeon_map_file, dungeon_map, attempt, save_error, history,
                   data_file, summary_file, last_summary, clock, cycles,
                   fetched, old_data, new_data, diff, timestamp, appended>>

\* a report or a summary raising before its own try block (lines 282, 356,
\* 439), nothing written
TaskRaises ==
    /\ tracebacks < MaxTracebacks
    /\ \E exception \in Raised : Wrapper(exception)
    /\ UNCHANGED <<dungeon_map_file, dungeon_map, csv_failed, attempt,
                   save_error, history, data_file, csv_file, summary_file,
                   clock, cycles, fetched, old_data, new_data, diff,
                   timestamp, appended>>

\* run_daily_report: generate_daily_dungeon_report reads the change log and
\* prints, which changes nothing here, or raises
RunDailyReport ==
    /\ pc = "idle"
    /\ TaskRaises
    /\ UNCHANGED last_summary

\* run_daily_summary in the loop
RunDailySummary ==
    /\ pc = "idle"
    /\ \/ DailySummary
       \/ TaskRaises /\ last_summary' = [typ |-> "DENNI", day |-> date(clock)]

\* run_weekly_summary in the loop
RunWeeklySummary ==
    /\ pc = "idle"
    /\ \/ WeeklySummary
       \/ TaskRaises /\ last_summary' = [typ |-> "TYDENNI", day |-> date(clock)]

NextLoop ==
    \/ BeginUpdate
    \/ FetchAndDiff
    \/ WriteCsv
    \/ WriteCsvRaises
    \/ AppendHistory
    \/ WriteTemp
    \/ Unlink
    \/ Rename
    \/ RunDailyReport
    \/ RunDailySummary
    \/ RunWeeklySummary
    \/ Interrupt

\* the tracker constructed over the history an earlier run left
InitLoop ==
    Constructed({ExampleCatalog}, {SavedFile(<<Entry(0, [p \in {"A"} |-> 1])>>)})

SpecLoop == InitLoop /\ [][NextLoop]_vars

-----------------------------------------------------------------------------
(* Properties of calculate_diff and the classifier, under SpecDiff *)

Called == pc = "idle"
Records == diff.items
Reverse == calculate_diff(new_data, old_data, dungeon_map)

\* C1: with a non-empty previous snapshot the result is a change set that
\* holds one record for each player whose old total (absent = 0) differs
\* from the new total (absent = 0), and none for any other player,
\* players absent from both snapshots included.
C1_ChangedPlayersExactlyOnce ==
    (Called /\ DOMAIN old_data # {}) =>
        /\ diff.kind = "dict"
        /\ DOMAIN Records \subseteq DOMAIN old_data \cup DOMAIN new_data
        /\ \A p \in Players :
              Cardinality({q \in DOMAIN Records : q = p}) =
                  IF get(old_data, p, 0) # get(new_data, p, 0) THEN 1 ELSE 0

\* a changed player, an unchanged player with a total, and a player in neither
C1_Witness ==
    /\ Called
    /\ "A" \in DOMAIN Records
    /\ "B" \in DOMAIN old_data /\ "B" \in DOMAIN new_data /\ "B" \notin DOMAIN Records
    /\ old_data["B"] > 0

\* C2: each record of player p has old = previous.get(p, 0), new =
\* current.get(p, 0), change = new - old, change # 0; a player only in
\* previous gets new = 0 and change = -previous[p]; a player only in current
\* gets old = 0 and change = current[p], and the record such a player gets is
\* the one the player would get if listed with total 0 on the other side.
C2_RecordFields ==
    Called =>
        \A p \in DOMAIN Records :
            LET r == Records[p] IN
            /\ r.old = get(old_data, p, 0)
            /\ r.new = get(new_data, p, 0)
            /\ r.change = r.new - r.old
            /\ r.change # 0
            /\ (p \in DOMAIN old_data /\ p \notin DOMAIN new_data) =>
                  /\ r.new = 0
                  /\ r.change = 0 - old_data[p]
                  /\ r = calculate_diff(old_data, (p :> 0) @@ new_data,
                                        dungeon_map).items[p]
            /\ (p \notin DOMAIN old_data /\ p \in DOMAIN new_data) =>
                  /\ r.old = 0
                  /\ r.change = new_data[p]
                  /\ r = calculate_diff((p :> 0) @@ old_data, new_data,
                                        dungeon_map).items[p]

\* one player vanished with a total of 2, the other appeared with 1
C2_Witness ==
    /\ Called
    /\ DOMAIN old_data = {"A"} /\ DOMAIN new_data = {"B"}
    /\ DOMAIN Records = {"A", "B"}
    /\ Records["A"].change = -2
    /\ Records["B"].change = 1

\* C3: with an empty previous snapshot the result is None, which is not the
\* empty change set, and it holds no record.
C3_EmptyPreviousGivesNone ==
    (Called /\ DOMAIN old_data = {}) =>
        /\ diff = None
        /\ diff # Dict(EmptyDict)
        /\ DOMAIN Records = {}

C3_Witness ==
    /\ Called
    /\ DOMAIN old_data = {}
    /\ DOMAIN new_data = Players
    /\ diff = None

\* C4 as claimed: calculate_diff(S, S) is the empty change set for every S.
C4_Original_SelfDiffEmpty ==
    (Called /\ old_data = new_data) => diff = Dict(EmptyDict)

\* C4 amended: calculate_diff(S, S) is the empty change set for every
\* non-empty snapshot S (for the empty one it is None).
C4_SelfDiffEmpty ==
    (Called /\ old_data = new_data /\ DOMAIN old_data # {}) =>
        diff = Dict(EmptyDict)

C4_Witness ==
    /\ Called
    /\ old_data = new_data
    /\ DOMAIN old_data = Players
    /\ old_data["A"] # old_data["B"]
    /\ diff = Dict(EmptyDict)

\* C5 as claimed: a change d reported for p by calculate_diff(A, B) is
\* reported as -d for p by calculate_diff(B, A), for all snapshots A and B.
C5_Original_Symmetry ==
    Called =>
        \A p \in DOMAIN Records :
            /\ p \in DOMAIN Reverse.items
            /\ Reverse.items[p].change = 0 - Records[p].change

\* C5 amended: the same, for every snapshot A and every non-empty snapshot B
\* (with B empty calculate_diff(B, A) is None and reports nothing).
C5_Symmetry ==
    (Called /\ DOMAIN new_data # {}) =>
        /\ Reverse.kind = "dict"
        /\ \A p \in DOMAIN Records :
              /\ p \in DOMAIN Reverse.items
              /\ Reverse.items[p].change = 0 - Records[p].change

\* a player only in A and a player only in B
C5_Witness ==
    /\ Called
    /\ DOMAIN old_data = {"A"} /\ DOMAIN new_data = {"B"}
    /\ DOMAIN Records = {"A", "B"}
    /\ DOMAIN Reverse.items = {"A", "B"}
    /\ Records["A"].change = -1
    /\ Records["B"].change = 2
    /\ Reverse.items["A"].change = 1

\* C6: a record with a negative change carries the loss label, whatever the
\* catalog holds.
C6_LossLabel ==
    Called =>
        \A p \in DOMAIN Records :
            Records[p].change < 0 => Records[p].dungeon = LossLabel

\* a loss of 1 under a catalog that has entries for -1 and for 1
C6_Witness ==
    /\ Called
    /\ {-1, 1} \subseteq DOMAIN dungeon_map
    /\ \E p \in DOMAIN Records :
          Records[p].change = -1 /\ Records[p].dungeon = LossLabel

\* the rows the loader gets to: those before the first row lacking a field
RECURSIVE LoadedRows(_)
LoadedRows(rows) ==
    IF rows = <<>> \/ ~({"Dung", "Pts"} \subseteq DOMAIN rows[1]) THEN <<>>
    ELSE <<rows[1]>> \o LoadedRows(Tail(rows))

\* the names of the loaded rows whose points text reads as v, in row order
RECURSIVE NamesInRowOrder(_, _)
NamesInRowOrder(rows, v) ==
    IF rows = <<>> THEN <<>>
    ELSE LET n == int(rows[1].Pts)
             here == IF strip(rows[1].Pts) # <<>> /\ n.ok /\ n.value = v
                         THEN <<text(strip(rows[1].Dung))>> ELSE <<>>
         IN  here \o NamesInRowOrder(Tail(rows), v)

\* names[1] / names[2] / ... / names[n], built from the right
RECURSIVE Delimited(_, _)
Delimited(names, n) ==
    IF n = 1 THEN names[1] ELSE Delimited(names, n - 1) \o " / " \o names[n]

\* C7: a positive delta that is a key of the catalog is labelled with the
\* names mapped to it, in the order of their rows in the source, joined by
\* " / "; a single name is the label as it is.
C7_KnownDeltaLabel ==
    Called =>
        \A p \in DOMAIN Records :
            LET r == Records[p] IN
            (r.change > 0 /\ r.change \in DOMAIN dungeon_map) =>
                LET names == dungeon_map[r.change] IN
                /\ names = NamesInRowOrder(LoadedRows(dungeon_map_file.rows), r.change)
                /\ Len(names) >= 1
                /\ r.dungeon = Delimited(names, Len(names))
                /\ Len(names) = 1 => r.dungeon = names[1]

\* Tower and Vault (its name padded with blanks in the source) both at
\* 2 points, Tower's row first, and a gain of 2
C7_Witness ==
    /\ Called
    /\ \E p \in DOMAIN Records :
          Records[p].change = 2 /\ Records[p].dungeon = "Tower / Vault"

\* C8: a positive delta that is no key of the catalog is labelled
\* "Neznamy dungeon (<delta> bodu)" with the delta in decimal, so different
\* unregistered deltas get different labels; a missing source, or one that
\* open() fails on, gives the empty catalog, under which every positive
\* delta gets that label.
\* (The labels of 1..MaxDelta depend on the catalog alone: they are compared
\* once per catalog, in the state where both snapshots are empty.)
C8_UnknownDeltaLabel ==
    LET Unknown(d) == "Neznamy dungeon (" \o ToString(d) \o " bodu)"
        Unregistered == {d \in 1..MaxDelta : d \notin DOMAIN dungeon_map}
        label == [d \in Unregistered |-> get_dungeon_name(d, dungeon_map)]
    IN  Called =>
        /\ \A p \in DOMAIN Records :
              (Records[p].change > 0 /\ Records[p].change \notin DOMAIN dungeon_map) =>
                  Records[p].dungeon = Unknown(Records[p].change)
        /\ (DOMAIN old_data = {} /\ DOMAIN new_data = {}) =>
              /\ \A d \in Unregistered : label[d] = Unknown(d)
              /\ \A d, e \in Unregistered : d # e => label[d] # label[e]
        /\ (~dungeon_map_file.exists \/ ~dungeon_map_file.readable) =>
              /\ dungeon_map = EmptyDict
              /\ \A p \in DOMAIN Records :
                    Records[p].change > 0 =>
                        Records[p].dungeon = Unknown(Records[p].change)

\* a source with a row for 1 point that cannot be opened, and gains of 1 and 2
C8_Witness ==
    /\ Called
    /\ dungeon_map_file.exists /\ ~dungeon_map_file.readable
    /\ dungeon_map_file.rows = <<Row(<<"Crypt">>, <<"1">>)>>
    /\ DOMAIN Records = {"A", "B"}
    /\ Records["A"].dungeon = "Neznamy dungeon (1 bodu)"
    /\ Records["B"].dungeon = "Neznamy dungeon (2 bodu)"

-----------------------------------------------------------------------------
(* Properties of the update cycle *)

Min(a, b) == IF a < b THEN a ELSE b
Last(seq) == seq[Len(seq)]

\* C9 (SpecLong): starting from an empty history, after k successful update
\* cycles the history holds min(k, 30) entries, which are the min(k, 30)
\* entries appended last, in the order they were appended; after 31 appends
\* it holds 30 entries and the first appended entry is gone.
C9_HistoryBound ==
    LET k == Len(appended)
        n == Len(history)
    IN  /\ n = Min(k, 30)
        /\ \A i \in 1..n : history[i] = appended[k - n + i]
        /\ \A i, j \in 1..k : i # j => appended[i] # appended[j]
        /\ k = 31 => (n = 30 /\ \A i \in 1..n : history[i] # appended[1])

\* 31 entries appended, the history holding the 2nd to the 31st
C9_Witness ==
    /\ Len(appended) = 31
    /\ Len(history) = 30
    /\ history[1] = appended[2]
    /\ history[30] = appended[31]

AddedRows == SubSeq(csv_file', Len(csv_file) + 1, Len(csv_file'))

\* C11 (Spec): in every call of update() each record of the diff of that call
\* gives exactly one row appended to the change log, holding the record's
\* player, previous total, new total, signed change and label; no other row
\* is appended, and the rows already in the change log stay as they are.
C11_OneRowPerRecord ==
    [][cycles' # cycles =>
          /\ Len(csv_file') >= Len(csv_file)
          /\ SubSeq(csv_file', 1, Len(csv_file)) = csv_file
          /\ IF rejected(fetched')
                THEN AddedRows = <<>>
                ELSE /\ Len(AddedRows) = Cardinality(DOMAIN diff'.items)
                     /\ \A p \in DOMAIN diff'.items :
                           \E i \in 1..Len(AddedRows) :
                               /\ AddedRows[i].Hrac = p
                               /\ AddedRows[i].BodyPredtim = chars(diff'.items[p].old)
                               /\ AddedRows[i].BodyNyni = chars(diff'.items[p].new)
                               /\ AddedRows[i].Zmena = chars(diff'.items[p].change)
                               /\ AddedRows[i].Dungeon = diff'.items[p].dungeon
    ]_vars

\* C12 (Spec): a call of update() that scraped a snapshot computes the diff
\* between the snapshot of the entry that was last in the history before the
\* call (the empty snapshot, the history being empty) and the scraped
\* snapshot, and the entry it appends holds the scraped snapshot.
C12_DiffAgainstLatest ==
    [][(cycles' # cycles /\ ~rejected(fetched')) =>
          /\ old_data' = IF history = <<>> THEN EmptyDict ELSE Last(history).data
          /\ new_data' = fetched'.items
          /\ diff' = calculate_diff(old_data', new_data', dungeon_map)
          /\ Last(history').data = new_data'
          /\ Len(history) < 30 => SubSeq(history', 1, Len(history)) = history
    ]_vars

\* a third call diffing the second scrape against the third, the first
\* scrape differing from both
C12_Witness ==
    /\ cycles = 3
    /\ Len(history) = 3
    /\ old_data = history[2].data
    /\ new_data = history[3].data
    /\ history[1].data # old_data
    /\ old_data # new_data
    /\ diff = calculate_diff(history[2].data, history[3].data, dungeon_map)
    /\ DOMAIN diff.items # {}

\* the history file is absent or corrupted (unparseable or unreadable)
AbsentOrCorrupted(file) ==
    ~file.exists \/ ~file.readable \/ ~file.decodes \/ ~file.parses

\* C13 (Spec): a tracker started on an absent or corrupted history file has
\* an empty history; the first update() after it that scrapes a snapshot
\* returns no diff, appends no row to the change log and leaves the history
\* with exactly one entry.
C13_ColdStart ==
    /\ (cycles = 0 /\ AbsentOrCorrupted(data_file)) =>
           (pc = "idle" /\ history = <<>>)
    /\ (cycles > 0 /\ Len(appended) = 1 /\ Len(history) = 1) =>
           (diff = None /\ csv_file = <<>>)

-----------------------------------------------------------------------------
(* Properties of the catalog, under SpecDiff *)

\* C14 (SpecDiff): in the catalog _load_dungeon_map builds from any sequence
\* of rows every key is a positive integer and every key maps to a non-empty
\* list of dungeon names.
C14_PositiveKeysNonEmptyLists ==
    \A k \in DOMAIN dungeon_map :
        /\ k \in Nat /\ k > 0
        /\ Len(dungeon_map[k]) >= 1

\* a row with both fields, a name, and a points value that is not blank and
\* is numeric
WellFormed(row) ==
    /\ {"Dung", "Pts"} \subseteq DOMAIN row
    /\ strip(row.Dung) # <<>>
    /\ strip(row.Pts) # <<>>
    /\ int(row.Pts).ok

\* C15 (SpecDiff): a malformed row (blank or non-numeric points value,
\* missing name, missing field) is skipped on its own: the catalog built
\* from a source equals the catalog built from its well-formed rows alone.
C15_MalformedRowsSkipped ==
    (dungeon_map_file.exists /\ dungeon_map_file.readable) =>
        dungeon_map = load_rows(SelectSeq(dungeon_map_file.rows, WellFormed),
                                1, EmptyDict)

\* C16 (SpecDiff): under every catalog the label of a record is the loss
\* sentinel if and only if the record's change is negative.
C16_SentinelOnlyForLosses ==
    Called =>
        \A p \in DOMAIN Records :
            (Records[p].dungeon = LossLabel) <=> (Records[p].change < 0)

-----------------------------------------------------------------------------
(* Properties of the history and its file *)

\* C18 (Spec): from the moment the history has been loaded, the history in
\* memory and the history in the file each hold at most 30 entries.
C18_AtMostThirtyEntries ==
    /\ Len(history) <= 30
    /\ Len(data_file.entries) <= 30

\* a full history found at start, after a cycle that appended to it and
\* saved it
C18_Witness ==
    /\ Len(appended) = 1
    /\ Len(history) = 30
    /\ Last(history) = appended[1]
    /\ data_file = SavedFile(history)

\* C19 (Spec): at the end of every call of update() that scraped a non-empty
\* snapshot the history file holds the history in memory, the same entries
\* in the same order, the last being the snapshot just scraped.
C19_PersistedEqualsMemory ==
    (cycles > 0 /\ ~rejected(fetched)) =>
        /\ data_file = SavedFile(history)
        /\ Last(history).data = fetched.items

-----------------------------------------------------------------------------
(* Properties of the scheduling loop, under SpecSteps *)

\* the change log holds rows of the last cycle while the history file does
\* not hold that cycle's snapshot
HalfApplied ==
    /\ \E i \in 1..Len(csv_file) : csv_file[i].Timestamp = timestamp_str(timestamp)
    /\ \A j \in 1..Len(data_file.entries) :
           data_file.entries[j] # Entry(timestamp, new_data)

\* C20 (SpecSteps): the interrupt signal stops the scheduling loop between
\* cycles, or ends a cycle that has written nothing: it never leaves a cycle
\* with its change-log rows written and its snapshot not in the history file.
C20_InterruptNeverHalfApplies ==
    [][pc' = "stopped" => (pc = "idle" \/ ~HalfApplied')]_vars

-----------------------------------------------------------------------------
(* Properties of the summaries, under SpecSummary *)

\* the window of a summary run: the day before the run for the daily
\* summary, Monday to Sunday of the week before the run for the weekly one
WindowFirst(run) ==
    IF run.typ = "DENNI" THEN run.day - 1 ELSE run.day - (weekday(run.day) + 7)
WindowLast(run) ==
    IF run.typ = "DENNI" THEN run.day - 1 ELSE WindowFirst(run) + 6

\* a row of the change log in the window of the run, with a positive delta
InWindow(row, run) ==
    /\ WindowFirst(run) <= date(strptime(row.Timestamp).value)
    /\ date(strptime(row.Timestamp).value) <= WindowLast(run)
    /\ int(row.Zmena).value > 0

\* the rows a step appends to the summary
AddedSummaryRows == SubSeq(summary_file', Len(summary_file) + 1, Len(summary_file'))

\* C17 (SpecSummary): each run of the daily or the weekly summary appends one
\* row for each label that has a change-log row in the window with a positive
\* delta; the row's count is the number of those rows, and it lists one
\* player and one time for each of them; nothing else is appended, so rows
\* outside the window and rows with a delta that is not positive are not
\* counted.
C17_SummaryCounts ==
    [][(last_summary' # last_summary \/ summary_file' # summary_file) =>
          LET run == last_summary'
              hits == SelectSeq(csv_file, LAMBDA r : InWindow(r, run))
              labels == {hits[i].Dungeon : i \in 1..Len(hits)}
              of(l) == SelectSeq(hits, LAMBDA r : r.Dungeon = l)
              time_of(r) == IF run.typ = "DENNI" THEN r.Cas
                            ELSE r.Datum \o " " \o r.Cas
              sep == IF run.typ = "DENNI" THEN ", " ELSE "; "
          IN  /\ SubSeq(summary_file', 1, Len(summary_file)) = summary_file
              /\ Len(AddedSummaryRows) = Cardinality(labels)
              /\ \A l \in labels :
                    \E i \in 1..Len(AddedSummaryRows) :
                        /\ AddedSummaryRows[i].Dungeon = l
                        /\ AddedSummaryRows[i].Pocet = chars(Len(of(l)))
                        /\ AddedSummaryRows[i].Hraci =
                              join(", ", [j \in 1..Len(of(l)) |-> of(l)[j].Hrac])
                        /\ AddedSummaryRows[i].Casy =
                              join(sep, [j \in 1..Len(of(l)) |-> time_of(of(l)[j])])
    ]_vars

-----------------------------------------------------------------------------
(* Properties of _save_history, under SpecSteps *)

Saving == pc \in {"save", "unlink", "rename"}

\* C21 (SpecSteps): every step taken inside _save_history, a failing one and
\* a stop of the process included, leaves at the path of the history file
\* either the file that was there or the complete new history, never a
\* missing or partial file.
C21_PreviousOrNewFile ==
    [][Saving => (data_file' = data_file \/ data_file' = SavedFile(history))]_vars

\* C22 (FairSpecSteps): a call of _save_history ends, after at most 3
\* attempts: an attempt that raises PermissionError is followed by another
\* one unless it is the third, an attempt that raises anything else is the
\* last, a successful attempt is the last, and in each case the call
\* returns to update() without raising.
C22_AtMostThreeAttempts ==
    /\ [][(Saving /\ pc' # "stopped") =>
             /\ attempt' < 3
             /\ pc' \in {"save", "unlink", "rename", "idle"}
             /\ save_error' = "none" =>
                    /\ attempt' = attempt
                    /\ pc' # "save"
                    /\ pc = "rename" => pc' = "idle"
             /\ save_error' = "PermissionError" =>
                    IF attempt < 2
                        THEN attempt' = attempt + 1 /\ pc' = "save"
                        ELSE attempt' = attempt /\ pc' = "idle"
             /\ save_error' = "Exception" =>
                    (attempt' = attempt /\ pc' = "idle")
       ]_vars
    /\ (Saving ~> ~Saving)

\* the call given up after its third attempt raised PermissionError, the
\* history file being gone
C22_Witness ==
    /\ pc = "idle"
    /\ attempt = 2
    /\ save_error = "PermissionError"
    /\ data_file = AbsentFile
    /\ Len(appended) = 1

-----------------------------------------------------------------------------
(* Frame of calculate_diff, under SpecDiff *)

\* C23 (SpecDiff): for every pair of snapshots and every catalog the call of
\* calculate_diff returns, without raising, None or a dict of complete
\* records, and leaves the previous snapshot, the current snapshot, the
\* catalog and the history as they were.
C23_TotalAndPure ==
    [][(pc = "call" /\ pc' = "idle") =>
          /\ diff'.kind \in {"None", "dict"}
          /\ \A p \in DOMAIN diff'.items :
                /\ DOMAIN diff'.items[p] = {"old", "new", "change", "dungeon"}
                /\ diff'.items[p].change \in Int
                /\ diff'.items[p].dungeon \in STRING
          /\ old_data' = old_data
          /\ new_data' = new_data
          /\ dungeon_map' = dungeon_map
          /\ dungeon_map_file' = dungeon_map_file
          /\ history' = history
    ]_vars

\* a call under a catalog with a key that is not positive and a key with a
\* blank name, a player joining and a player leaving
C23_Witness ==
    /\ Called
    /\ DOMAIN dungeon_map = {0, 2}
    /\ dungeon_map[2] = <<"">>
    /\ old_data = [p \in {"A"} |-> 2]
    /\ new_data = [p \in {"B"} |-> 2]
    /\ DOMAIN Records = {"A", "B"}
    /\ Records["B"].dungeon = ""

-----------------------------------------------------------------------------
(* Properties of the change log over several cycles, under Spec *)

RECURSIVE SumOfChanges(_)
SumOfChanges(rows) ==
    IF rows = <<>> THEN 0 ELSE int(rows[1].Zmena).value + SumOfChanges(Tail(rows))

RowsOf(player) == SelectSeq(csv_file, LAMBDA r : r.Hrac = player)

\* the snapshot that was the latest when the process started, the history
\* having been non-empty then
StartSnapshot == history[Len(history) - Len(appended)].data

\* C24 (Spec): the tracker having started with a non-empty history and no
\* write to the change log having failed, for each player the changes of
\* the rows appended for the player add up to the player's total in the
\* latest snapshot minus the total in the snapshot that was the latest at
\* the start (absent = 0), and each of the player's rows has as previous
\* total the new total of the player's row before it.
C24_ChangesTelescope ==
    (~csv_failed /\ Len(history) > Len(appended)) =>
        \A p \in Players :
            /\ SumOfChanges(RowsOf(p)) =
                  get(Last(history).data, p, 0) - get(StartSnapshot, p, 0)
            /\ \A i \in 2..Len(RowsOf(p)) :
                  RowsOf(p)[i].BodyPredtim = RowsOf(p)[i - 1].BodyNyni

\* three cycles from the history [{A: 1}]: A rises to 2, vanishes and
\* comes back with 1, three rows whose changes add up to 0
C24_Witness ==
    /\ ~csv_failed
    /\ Len(history) = 4
    /\ Len(appended) = 3
    /\ Len(RowsOf("A")) = 3
    /\ SumOfChanges(RowsOf("A")) = 0
    /\ RowsOf("A")[2].Zmena = <<"-", "2">>
    /\ "A" \notin DOMAIN history[3].data

\* C25 (Spec): every snapshot update() appends is non-empty and holds only
\* totals above 0, and once a snapshot has been appended in this process
\* every later call of update() that scrapes a snapshot gets a change set
\* from calculate_diff, never None.
C25_AppendedSnapshotsPositive ==
    [][cycles' # cycles =>
          /\ \A i \in 1..Len(appended') :
                /\ DOMAIN appended'[i].data # {}
                /\ \A p \in DOMAIN appended'[i].data : appended'[i].data[p] > 0
          /\ (appended # <<>> /\ ~rejected(fetched')) => diff'.kind = "dict"
    ]_vars

\* a cold start, a first scrape appended, a rejected download, and a scrape
\* of the same leaderboard whose diff is the empty change set
C25_Witness ==
    /\ cycles = 3
    /\ Len(history) = 2
    /\ Len(appended) = 2
    /\ history[1].data = history[2].data
    /\ ~rejected(fetched)
    /\ diff = Dict(EmptyDict)

-----------------------------------------------------------------------------
(* The scheduling loop, under SpecLoop *)

\* C26: in automatic mode an exception other than KeyboardInterrupt raised
\* inside a scheduled task is caught by the run_* wrapper of the task, which
\* prints its traceback and returns to the scheduling loop, where the tasks
\* go on being run; the loop ends only through KeyboardInterrupt, in the
\* handler of main, never by an exception leaving main.
C26_WrapperKeepsLoopRunning ==
    [][/\ tracebacks' # tracebacks => pc' = "idle"
       /\ pc' # "crashed"
       /\ (pc' = "stopped" /\ pc # "stopped") => tracebacks' = tracebacks
    ]_vars

\* the change-log write of the first update raised an OSError, which the
\* wrapper caught, and the second update then ran to its end
C26_Witness ==
    /\ pc = "idle"
    /\ tracebacks = 1
    /\ cycles = 2
    /\ Len(appended) = 1
    /\ appended[1].timestamp = isoformat(HistoryLimit + 1)
    /\ data_file = SavedFile(history)

====
